---- MODULE Spec2Model ----
(***************************************************************************)
(* Supplier risk platform: the external-context resolver with its          *)
(* session cache (app.py, get_external_context), the risk scorer           *)
(* (calculate_certification_score, calculate_compliance_risk,              *)
(* calculate_overall_risk_score, get_risk_level) and the data collection   *)
(* portal (data_collection.py: certification, audit, incident and bulk     *)
(* updates of suppliers_full_data.csv, logged in data_log.jsonl).          *)
(*                                                                         *)
(* Numbers.  Python floats are modelled as exact rationals: a sub-risk or  *)
(* score x is the integer x * One, an overall score y is the integer       *)
(* y * OverallOne (weights are kept as hundredths, so no division is       *)
(* needed in the weighted sum).  One is a multiple of 100 * k for every    *)
(* k up to 6, so hundredths and the mean of up to 6 trust scores are       *)
(* exact.  Float rounding, NaN and infinities are not modelled.            *)
(*                                                                         *)
(* Strings.  A Python str is a sequence of one-character strings; a        *)
(* message literal of the program is a one-element sequence holding the    *)
(* literal (its characters are never inspected).                           *)
(***************************************************************************)
EXTENDS Integers, Sequences, FiniteSets, TLC

VARIABLES
    OPENAI_API_KEY,   \* app.py:34  TRUE iff a credential is configured
    cache,            \* app.py:26  st.session_state.external_context_cache
    apiCalls,         \* history: external requests issued, per cache key
    firstByKey,       \* history: first value returned, per cache key
    firstByCountry,   \* history: first call that returned, per country argument
    last,             \* history: the latest get_external_context call
    scorer,           \* position and data of one risk-scoring evaluation
    leveler,          \* position and data of one get_risk_level comparison
    suppliers_full_data,  \* data_collection.py:29  the rows of suppliers_full_data.csv
    data_log,         \* data_collection.py:101  the file data_log.jsonl
    clock,            \* the wall clock read by datetime.now() and pd.Timestamp.now()
    page              \* history: the latest script run of the portal and its output

vars == <<OPENAI_API_KEY, cache, apiCalls, firstByKey, firstByCountry, last,
          scorer, leveler, suppliers_full_data, data_log, clock, page>>

portalVars == <<suppliers_full_data, data_log, clock, page>>

resolverVars == <<OPENAI_API_KEY, cache, apiCalls, firstByKey, firstByCountry, last>>

----------------------------------------------------------------------------
(* Numbers *)

One == 60 * 100

OverallOne == 100 * One

Pct(n) == n * (One \div 100)

Min(a, b) == IF a <= b THEN a ELSE b

----------------------------------------------------------------------------
(* Strings *)

UpperLetters == <<"A","B","C","D","E","F","G","H","I","J","K","L","M",
                  "N","O","P","Q","R","S","T","U","V","W","X","Y","Z">>

LowerLetters == <<"a","b","c","d","e","f","g","h","i","j","k","l","m",
                  "n","o","p","q","r","s","t","u","v","w","x","y","z">>

LowerTable ==
    [c \in { UpperLetters[i] : i \in 1..Len(UpperLetters) } |->
        LowerLetters[CHOOSE i \in 1..Len(UpperLetters) : UpperLetters[i] = c]]

LowerChar(c) == IF c \in DOMAIN LowerTable THEN LowerTable[c] ELSE c

\* str.lower()
Lower(s) == [i \in 1..Len(s) |-> LowerChar(s[i])]

\* s[a:b] for 0 <= a <= b
Slice(s, a, b) == SubSeq(s, a + 1, Min(b, Len(s)))

\* pandas' missing cell (float NaN) and Python's None; no str equals them
NaN == <<"NaN">>

None == <<"None">>

----------------------------------------------------------------------------
(* Configuration, app.py:38-54 *)

RISK_WEIGHTS ==
    [certification |-> 25, geopolitical |-> 20, environmental |-> 20,
     compliance |-> 20, capacity_utilization |-> 10, operational |-> 5]

GEOPOLITICAL_RISK_BY_COUNTRY ==
    (<<"C","N">> :> Pct(65)) @@ (<<"I","N">> :> Pct(55)) @@ (<<"B","D">> :> Pct(70)) @@
    (<<"V","N">> :> Pct(50)) @@ (<<"I","D">> :> Pct(45)) @@ (<<"P","K">> :> Pct(75)) @@
    (<<"T","H">> :> Pct(40)) @@ (<<"M","M">> :> Pct(80)) @@ (<<"K","H">> :> Pct(65)) @@
    (<<"L","A">> :> Pct(60)) @@ (<<"K","R">> :> Pct(25)) @@ (<<"J","P">> :> Pct(15)) @@
    (<<"T","W">> :> Pct(45)) @@ (<<"I","T">> :> Pct(30)) @@ (<<"P","T">> :> Pct(25)) @@
    (<<"E","S">> :> Pct(30)) @@ (<<"F","R">> :> Pct(20)) @@ (<<"D","E">> :> Pct(15)) @@
    (<<"U","K">> :> Pct(25)) @@ (<<"T","R">> :> Pct(55)) @@ (<<"B","R">> :> Pct(50)) @@
    (<<"M","X">> :> Pct(45)) @@ (<<"C","L">> :> Pct(20)) @@ (<<"A","U">> :> Pct(10)) @@
    (<<"G","R">> :> Pct(35)) @@ (<<"B","G">> :> Pct(40)) @@ (<<"R","O">> :> Pct(38)) @@
    (<<"C","Z">> :> Pct(20)) @@ (<<"P","L">> :> Pct(35)) @@ (<<"H","U">> :> Pct(25))

\* GEOPOLITICAL_RISK_BY_COUNTRY.get(country, 0.50)
CountryRisk(country) ==
    IF country \in DOMAIN GEOPOLITICAL_RISK_BY_COUNTRY
    THEN GEOPOLITICAL_RISK_BY_COUNTRY[country]
    ELSE Pct(50)

----------------------------------------------------------------------------
(* Inputs of get_external_context and outcomes of the external source *)

MaxApiCalls == 3

\* "CN" is in the static table, "cn" is not; both give the same cache keys
CountryInputs == { <<"C","N">>, <<"c","n">> }

CityInputs == { <<"S","H">>, <<"B","J">> }

NameInputs == { <<"A">> }

\* the inputs of the runs without a credential
OfflineCountryInputs == { <<"C","N">>, <<"c","n">>, <<"F","R">> }

OfflineCityInputs == { <<"S","H">>, <<"s","h">>, <<"B","J">> }

OfflineNameInputs == { <<"A">>, <<"B">> }

CategoryInputs == { <<"T">> }

TextAlphabet == <<"a","b","c","d","e","f","g">>

\* a response text of n characters; its characters cycle through TextAlphabet
Text(n) == [i \in 1..n |-> TextAlphabet[((i - 1) % Len(TextAlphabet)) + 1]]

\* JSON values of a score field: a number, a string (numeric or not), null
Num(v) == [t |-> "num", v |-> v]

StrNum(v) == [t |-> "str", numeric |-> TRUE, v |-> v]

StrText == [t |-> "str", numeric |-> FALSE]

Null == [t |-> "null"]

Missing == [t |-> "missing"]

\* the fields of a response object other than the two scores
ObjectBase ==
    [geopolitical_factors |-> <<"trade tensions">>,
     environmental_factors |-> <<"water scarcity">>,
     climate_risk |-> <<"High">>,
     supply_chain_disruption_risk |-> <<"Low">>,
     regulatory_changes |-> <<"none">>]

WithField(obj, name, val) ==
    IF val = Missing THEN obj ELSE (name :> val) @@ obj

JsonObject(geo, env) ==
    [t |-> "object",
     obj |-> WithField(WithField(ObjectBase, "geopolitical_score", geo),
                       "environmental_score", env)]

Exc(type, msg) == [type |-> type, msg |-> msg]

NoExc == Exc("none", <<>>)

Response(n, j) == [kind |-> "text", response_text |-> Text(n), loads |-> j]

\* The outcomes of lines 81-113: an exception, a message without content, or
\* a response text together with what json.loads makes of it: no JSON, JSON
\* that is no object, and objects whose scores are in range, out of range,
\* missing, numeric strings, other strings and null.
Outcomes ==
    { [kind |-> "raise", exc |-> Exc("APIConnectionError", <<"Connection error.">>)],
      [kind |-> "none"],
      Response(3, [t |-> "JSONDecodeError"]),
      Response(450, [t |-> "JSONDecodeError"]),
      Response(3, [t |-> "array"]),
      Response(250, JsonObject(Num(Pct(40)), Num(Pct(60)))),
      Response(250, JsonObject(Num(0 - Pct(500)), Num(Pct(150)))),
      Response(250, JsonObject(Missing, StrNum(Pct(70)))),
      Response(250, JsonObject(Num(Pct(40)), StrText)),
      Response(250, JsonObject(Null, Num(Pct(60)))) }

----------------------------------------------------------------------------
(* get_external_context, app.py:60-143 *)

\* line 64
cache_key(country, city) == Lower(country \o <<"_">> \o city)

\* lines 71-78
NoCredentialContext(country) ==
    [geopolitical_factors |-> <<"No external data available">>,
     environmental_factors |-> <<"No external data available">>,
     geopolitical_score |-> CountryRisk(country),
     environmental_score |-> Pct(50),
     climate_risk |-> <<"Moderate">>,
     supply_chain_disruption_risk |-> <<"Moderate">>]

\* lines 122-129
ParseFallbackContext(country, response_text) ==
    [geopolitical_factors |-> Slice(response_text, 0, 200),
     environmental_factors |->
         IF Len(response_text) > 200 THEN Slice(response_text, 200, 400)
         ELSE <<"N/A">>,
     geopolitical_score |-> CountryRisk(country),
     environmental_score |-> Pct(50),
     climate_risk |-> <<"Moderate">>,
     supply_chain_disruption_risk |-> <<"Moderate">>]

\* the error fallback, were it to ignore the country
ErrorContextNoCountry(country, e) ==
    [geopolitical_factors |-> <<"Error: ">> \o e.msg,
     environmental_factors |-> <<"Unable to fetch">>,
     geopolitical_score |-> Pct(50),
     environmental_score |-> Pct(50),
     climate_risk |-> <<"Moderate">>,
     supply_chain_disruption_risk |-> <<"Moderate">>]

\* lines 136-143
ErrorContext(country, e) ==
    [geopolitical_factors |-> <<"Error: ">> \o e.msg,
     environmental_factors |-> <<"Unable to fetch">>,
     geopolitical_score |-> CountryRisk(country),
     environmental_score |-> Pct(50),
     climate_risk |-> <<"Moderate">>,
     supply_chain_disruption_risk |-> <<"Moderate">>]

\* float(x) of a JSON value
Float(x) ==
    CASE x.t = "num" -> [exc |-> NoExc, v |-> x.v]
      [] x.t = "str" /\ x.numeric -> [exc |-> NoExc, v |-> x.v]
      [] x.t = "str" /\ ~x.numeric ->
             [exc |-> Exc("ValueError", <<"could not convert string to float">>), v |-> 0]
      [] OTHER ->
             [exc |-> Exc("TypeError", <<"float() argument must be a string or a real number">>),
              v |-> 0]

\* context_data.get(name, 0.50)
DictGet(obj, name) == IF name \in DOMAIN obj THEN obj[name] ELSE Num(Pct(50))

\* lines 117-120: the body of the inner try; exc is the exception it raises
ParseBody(outcome) ==
    IF outcome.kind = "none"
    THEN [exc |-> Exc("TypeError", <<"the JSON object must be str, bytes or bytearray">>),
          context_data |-> <<>>]
    ELSE IF outcome.loads.t = "JSONDecodeError"
    THEN [exc |-> Exc("JSONDecodeError", <<"Expecting value">>), context_data |-> <<>>]
    ELSE IF outcome.loads.t # "object"
    THEN [exc |-> Exc("AttributeError", <<"object has no attribute 'get'">>),
          context_data |-> <<>>]
    ELSE LET obj == outcome.loads.obj
             g   == Float(DictGet(obj, "geopolitical_score"))
             e   == Float(DictGet(obj, "environmental_score"))
         IN  IF g.exc # NoExc THEN [exc |-> g.exc, context_data |-> <<>>]
             ELSE IF e.exc # NoExc THEN [exc |-> e.exc, context_data |-> <<>>]
             ELSE [exc |-> NoExc,
                   context_data |->
                       ("environmental_score" :> e.v) @@
                       ("geopolitical_score" :> g.v) @@ obj]

\* line 121: except (json.JSONDecodeError, ValueError)
InnerCatches(e) == e.type \in {"JSONDecodeError", "ValueError"}

\* lines 116-129
ParseResponse(country, outcome) ==
    LET b == ParseBody(outcome)
    IN  IF b.exc = NoExc THEN b
        ELSE IF InnerCatches(b.exc)
        THEN [exc |-> NoExc,
              context_data |-> ParseFallbackContext(country, outcome.response_text)]
        ELSE b

\* lines 81-132: the body of the outer try.  store tells whether line 131 ran
TryBody(country, outcome) ==
    IF outcome.kind = "raise"
    THEN [exc |-> outcome.exc, value |-> <<>>, store |-> FALSE]
    ELSE LET p == ParseResponse(country, outcome)
         IN  IF p.exc # NoExc THEN [exc |-> p.exc, value |-> <<>>, store |-> FALSE]
             ELSE [exc |-> NoExc, value |-> p.context_data, store |-> TRUE]

\* an outer handler as narrow as the inner one
OuterCatchesNarrow(e) == InnerCatches(e)

\* line 134: except Exception
OuterCatches(e) == TRUE

\* lines 80-143: what a cache miss with a credential returns, stores or raises
Resolve(country, outcome) ==
    LET b == TryBody(country, outcome)
    IN  IF b.exc = NoExc THEN [raised |-> FALSE, caught |-> NoExc, value |-> b.value,
                               store |-> b.store, outcome |-> outcome]
        ELSE IF OuterCatches(b.exc)
        THEN [raised |-> FALSE, caught |-> b.exc, value |-> ErrorContext(country, b.exc),
              store |-> FALSE, outcome |-> outcome]
        ELSE [raised |-> TRUE, caught |-> NoExc, value |-> <<>>, store |-> FALSE,
              outcome |-> outcome]

NoCall == [path |-> "none"]

ApiCount(key) == IF key \in DOMAIN apiCalls THEN apiCalls[key] ELSE 0

RECURSIVE SumOver(_, _)
SumOver(f, S) ==
    IF S = {} THEN 0
    ELSE LET x == CHOOSE y \in S : TRUE IN f[x] + SumOver(f, S \ {x})

\* external requests issued so far in the run
TotalApiCalls == SumOver(apiCalls, DOMAIN apiCalls)

\* the call as the caller sees it, with the outcome of its external request
Call(country, city, supplier_name, production_category, path, external, r) ==
    last' = [path |-> path, country |-> country, city |-> city,
             supplier_name |-> supplier_name,
             production_category |-> production_category,
             cache_key |-> cache_key(country, city), external |-> external,
             raised |-> r.raised, caught |-> r.caught, value |-> r.value,
             outcome |-> r.outcome]

Returned(v) ==
    [raised |-> FALSE, caught |-> NoExc, value |-> v, store |-> FALSE,
     outcome |-> [kind |-> "no call"]]

\* a hit that returns the stored value and then drops the entry
CacheHitEvicting(country, city, supplier_name, production_category) ==
    LET key == cache_key(country, city)
    IN  /\ key \in DOMAIN cache
        /\ Call(country, city, supplier_name, production_category,
                "hit", "no call", Returned(cache[key]))
        /\ cache' = [k \in DOMAIN cache \ {key} |-> cache[k]]
        /\ UNCHANGED <<OPENAI_API_KEY, apiCalls>>

\* lines 64-67
CacheHit(country, city, supplier_name, production_category) ==
    LET key == cache_key(country, city)
    IN  /\ key \in DOMAIN cache
        /\ Call(country, city, supplier_name, production_category,
                "hit", "no call", Returned(cache[key]))
        /\ UNCHANGED <<OPENAI_API_KEY, cache, apiCalls>>

\* the no-credential path, were it to store its fallback under the cache key
NoCredentialStoring(country, city, supplier_name, production_category) ==
    LET key == cache_key(country, city)
    IN  /\ key \notin DOMAIN cache
        /\ ~OPENAI_API_KEY
        /\ cache' = (key :> NoCredentialContext(country)) @@ cache
        /\ Call(country, city, supplier_name, production_category,
                "no credential", "no call", Returned(NoCredentialContext(country)))
        /\ UNCHANGED <<OPENAI_API_KEY, apiCalls>>

\* lines 64-78
NoCredential(country, city, supplier_name, production_category) ==
    LET key == cache_key(country, city)
    IN  /\ key \notin DOMAIN cache
        /\ ~OPENAI_API_KEY
        /\ Call(country, city, supplier_name, production_category,
                "no credential", "no call", Returned(NoCredentialContext(country)))
        /\ UNCHANGED <<OPENAI_API_KEY, cache, apiCalls>>

ExternalKind(outcome) ==
    IF outcome.kind = "text" THEN outcome.loads.t ELSE outcome.kind

\* lines 64-69 and 80-143
ExternalCall(country, city, supplier_name, production_category, outcome) ==
    LET key == cache_key(country, city)
        r   == Resolve(country, outcome)
    IN  /\ key \notin DOMAIN cache
        /\ OPENAI_API_KEY
        /\ TotalApiCalls < MaxApiCalls
        /\ apiCalls' = (key :> (ApiCount(key) + 1)) @@ apiCalls
        /\ cache' = IF r.store THEN (key :> r.value) @@ cache ELSE cache
        /\ Call(country, city, supplier_name, production_category,
                "external", ExternalKind(outcome), r)
        /\ UNCHANGED OPENAI_API_KEY

get_external_context(country, city, supplier_name, production_category) ==
    \/ CacheHit(country, city, supplier_name, production_category)
    \/ NoCredential(country, city, supplier_name, production_category)
    \/ \E outcome \in Outcomes :
           ExternalCall(country, city, supplier_name, production_category, outcome)

\* history: the first value returned for the cache key of the call just made
RecordByKey ==
    /\ firstByKey' =
           IF last'.raised \/ last'.cache_key \in DOMAIN firstByKey THEN firstByKey
           ELSE (last'.cache_key :> last'.value) @@ firstByKey
    /\ UNCHANGED firstByCountry

\* history: the first call that returned for the country of the call just made
RecordByCountry ==
    /\ firstByCountry' =
           IF last'.raised \/ last'.country \in DOMAIN firstByCountry THEN firstByCountry
           ELSE (last'.country :> last') @@ firstByCountry
    /\ UNCHANGED firstByKey

InitResolver ==
    /\ OPENAI_API_KEY \in BOOLEAN
    /\ cache = <<>>
    /\ apiCalls = <<>>
    /\ firstByKey = <<>>
    /\ firstByCountry = <<>>
    /\ last = NoCall

\* the portal is not run: no table, no log file
InitPortalIdle ==
    /\ suppliers_full_data = <<>>
    /\ data_log = [exists |-> FALSE, lines |-> <<>>]
    /\ clock = 0
    /\ page = [mode |-> "idle"]

InitIdle ==
    /\ scorer = [pc |-> "idle"]
    /\ leveler = [pc |-> "idle"]
    /\ InitPortalIdle

Init == InitResolver /\ InitIdle

\* one page render resolving the context of one supplier row
Resolver ==
    /\ \E country \in CountryInputs, city \in CityInputs,
          supplier_name \in NameInputs, production_category \in CategoryInputs :
           get_external_context(country, city, supplier_name, production_category)
    /\ RecordByKey
    /\ UNCHANGED <<scorer, leveler, portalVars>>

Next == Resolver

Spec == Init /\ [][Next]_vars

\* one page render resolving the context of one supplier row whose country
\* or city holds the separator of line 64; the locations are "A_B", "C" and
\* "A", "B_C", the first in lower case, and "A", "C"
ResolveLocation ==
    /\ \E location \in { << <<"A","_","B">>, <<"C">> >>, << <<"A">>, <<"B","_","C">> >>,
                          << <<"a","_","b">>, <<"c">> >>, << <<"A">>, <<"C">> >> },
          supplier_name \in NameInputs, production_category \in CategoryInputs :
           get_external_context(location[1], location[2], supplier_name,
                                production_category)
    /\ RecordByKey
    /\ UNCHANGED <<scorer, leveler, portalVars>>

SpecLocations == Init /\ [][ResolveLocation]_vars

\* runs without a credential
InitOffline == InitResolver /\ ~OPENAI_API_KEY /\ InitIdle

ResolverOffline ==
    /\ \E country \in OfflineCountryInputs, city \in OfflineCityInputs,
          supplier_name \in OfflineNameInputs, production_category \in CategoryInputs :
           get_external_context(country, city, supplier_name, production_category)
    /\ RecordByCountry
    /\ UNCHANGED <<scorer, leveler, portalVars>>

NextOffline == ResolverOffline

SpecOffline == InitOffline /\ [][NextOffline]_vars

----------------------------------------------------------------------------
(* Risk scorer, app.py:174-256 *)

MaxCerts == 2

GOTS == <<"G","O","T","S">>

GRS == <<"G","R","S">>

RWS == <<"R","W","S">>

ZDHC == <<"Z","D","H","C">>

WRAP == <<"W","R","A","P">>

\* the map with the scores of GRS and RWS exchanged
cert_map_swapped ==
    (GOTS :> Pct(90)) @@ (GRS :> Pct(88)) @@ (RWS :> Pct(85)) @@
    (ZDHC :> Pct(82)) @@ (WRAP :> Pct(80))

\* line 180
cert_map ==
    (GOTS :> Pct(90)) @@ (GRS :> Pct(85)) @@ (RWS :> Pct(88)) @@
    (ZDHC :> Pct(82)) @@ (WRAP :> Pct(80))

Entry(name, text) == [name |-> name, text |-> text]

\* The entries a certification field is written with: name is the
\* certification the entry stands for ("" for none, "other" for one without a
\* trust score of its own), text is how the cell spells it.
CertEntries ==
    { Entry("GOTS", GOTS), Entry("GOTS", <<" ">> \o GOTS \o <<" ">>),
      Entry("GRS", GRS), Entry("RWS", RWS), Entry("ZDHC", ZDHC), Entry("WRAP", WRAP),
      Entry("other", WRAP \o <<" ">> \o <<"G","O","L","D">>),
      Entry("other", <<"g","o","t","s">>),
      Entry("", <<>>), Entry("", <<" ">>) }

RECURSIVE Join(_)
\* ",".join(entries)
Join(entries) ==
    IF Len(entries) = 0 THEN <<>>
    ELSE IF Len(entries) = 1 THEN entries[1].text
    ELSE entries[1].text \o <<",">> \o Join(Tail(entries))

EntryLists == UNION { [1..n -> CertEntries] : n \in 1..MaxCerts }

\* how the 'Supplier certifications' cell is written: not at all (no such
\* column), left empty (NaN), or as a list of entries
CertWritings ==
    { [kind |-> "absent", entries |-> <<>>], [kind |-> "NaN", entries |-> <<>>] } \cup
    { [kind |-> "list", entries |-> l] : l \in EntryLists }

CertCell(w) == IF w.kind = "NaN" THEN NaN ELSE Join(w.entries)

RECURSIVE Split(_, _)
\* s.split(sep) for a one-character sep
Split(s, sep) ==
    IF \A i \in 1..Len(s) : s[i] # sep THEN << s >>
    ELSE LET i == CHOOSE j \in 1..Len(s) :
                      s[j] = sep /\ \A k \in 1..(j - 1) : s[k] # sep
         IN  << SubSeq(s, 1, i - 1) >> \o Split(SubSeq(s, i + 1, Len(s)), sep)

RECURSIVE LStrip(_)
LStrip(s) == IF Len(s) > 0 /\ s[1] = " " THEN LStrip(Tail(s)) ELSE s

RECURSIVE RStrip(_)
RStrip(s) ==
    IF Len(s) > 0 /\ s[Len(s)] = " " THEN RStrip(SubSeq(s, 1, Len(s) - 1)) ELSE s

\* s.strip()
Strip(s) == LStrip(RStrip(s))

RECURSIVE Sum(_)
Sum(q) == IF Len(q) = 0 THEN 0 ELSE q[1] + Sum(Tail(q))

\* pd.isna(x) of a cell or of None
IsNa(x) == x = NaN \/ x = None

\* line 182 without its filter "if c.strip()"
RECURSIVE TrustScoresUnfiltered(_)
TrustScoresUnfiltered(certs) ==
    IF Len(certs) = 0 THEN <<>>
    ELSE LET c == Strip(certs[1])
         IN  << IF c \in DOMAIN cert_map THEN cert_map[c] ELSE Pct(70) >>
             \o TrustScoresUnfiltered(Tail(certs))

\* line 182: [cert_map.get(c.strip(), 0.70) for c in certs if c.strip()]
RECURSIVE TrustScores(_)
TrustScores(certs) ==
    IF Len(certs) = 0 THEN <<>>
    ELSE LET c == Strip(certs[1])
         IN  (IF Len(c) = 0 THEN <<>>
              ELSE << IF c \in DOMAIN cert_map THEN cert_map[c] ELSE Pct(70) >>)
             \o TrustScores(Tail(certs))

\* lines 174-183 with every entry of the split counted
calculate_certification_score_unfiltered(cert_string) ==
    IF IsNa(cert_string) \/ cert_string = <<>> THEN 0
    ELSE LET scores == TrustScoresUnfiltered(Split(cert_string, ","))
         IN  IF Len(scores) > 0 THEN Sum(scores) \div Len(scores) ELSE 0

\* lines 174-183
calculate_certification_score(cert_string) ==
    IF IsNa(cert_string) \/ cert_string = <<>> THEN 0
    ELSE LET scores == TrustScores(Split(cert_string, ","))
         IN  IF Len(scores) > 0 THEN Sum(scores) \div Len(scores) ELSE 0

\* supplier_row.get(name, default)
RowGet(row, name, default) == IF name \in DOMAIN row THEN row[name] ELSE default

\* lines 185-193
calculate_compliance_risk(supplier_data) ==
    LET country == RowGet(supplier_data, "Country", None)
        base_risk == IF ~IsNa(country) THEN Pct(30) + (CountryRisk(country) * 3) \div 10
                     ELSE Pct(30)
    IN  Min(base_risk, One)

\* external_context=None
NoContext == [none |-> TRUE]

\* truth value of the external_context argument: None and {} are false
Truthy(external_context) ==
    external_context # NoContext /\ DOMAIN external_context # {}

\* lines 200-232: the six sub-risks
SubRisks(supplier_row, external_context) ==
    [certification |->
         One - calculate_certification_score(
                   RowGet(supplier_row, "Supplier certifications", <<>>)),
     compliance |-> calculate_compliance_risk(supplier_row),
     geopolitical |->
         IF Truthy(external_context) /\ "geopolitical_score" \in DOMAIN external_context
         THEN external_context["geopolitical_score"]
         ELSE CountryRisk(RowGet(supplier_row, "Country", <<"X","X">>)),
     environmental |->
         IF Truthy(external_context) /\ "environmental_score" \in DOMAIN external_context
         THEN external_context["environmental_score"]
         ELSE Pct(50),
     operational |-> Pct(20),
     capacity_utilization |-> Pct(30)]

\* lines 195-244; the result is in units of 1 / OverallOne
calculate_overall_risk_score(supplier_row, external_context) ==
    LET r == SubRisks(supplier_row, external_context)
        overall_risk ==
            RISK_WEIGHTS.certification * r.certification +
            RISK_WEIGHTS.compliance * r.compliance +
            RISK_WEIGHTS.geopolitical * r.geopolitical +
            RISK_WEIGHTS.environmental * r.environmental +
            RISK_WEIGHTS.operational * r.operational +
            RISK_WEIGHTS.capacity_utilization * r.capacity_utilization
    IN  Min(overall_risk, OverallOne)

\* the levels with the thresholds compared by <= instead of <
get_risk_level_inclusive(score) ==
    IF score <= 25 * One THEN "Low"
    ELSE IF score <= 50 * One THEN "Medium"
    ELSE IF score <= 75 * One THEN "High"
    ELSE "Critical"

\* lines 246-256; score in units of 1 / OverallOne
get_risk_level(score) ==
    IF score < 25 * One THEN "Low"
    ELSE IF score < 50 * One THEN "Medium"
    ELSE IF score < 75 * One THEN "High"
    ELSE "Critical"

NameOnly == [Name |-> <<"A">>]

WithColumn(row, name, present, cell) ==
    IF present THEN (name :> cell) @@ row ELSE row

\* the columns of suppliers_full_data.csv that load_supplier_data (lines
\* 156-170) loads and does not rename, for a supplier whose audit failed,
\* whose risk buckets are High and who has an incident; "plain" rows carry
\* none of them
RiskColumns(profile) ==
    IF profile = "worst"
    THEN [audit_status |-> <<"Failed">>, has_incidents |-> <<"True">>,
          incident_type |-> <<"Labor Violation">>,
          geopolitical_risk |-> <<"High">>, environmental_risk |-> <<"High">>]
    ELSE <<>>

\* the supplier row with the given country cell, certification writing and
\* risk columns; "absent" leaves the column out
SupplierRow(country, writing, profile) ==
    WithColumn(WithColumn(NameOnly, "Country", country # <<"absent">>, country),
               "Supplier certifications", writing.kind # "absent", CertCell(writing))
    @@ RiskColumns(profile)

\* the countries of the scored rows: two of the table (its highest-risk
\* producer and its lowest value), unknown, an empty cell, and no such column
ScorerCountries == { <<"C","N">>, <<"A","U">>, <<"X","Y">>, NaN, <<"absent">> }

\* the contexts get_external_context returns for a country, and no context
ContextsFor(country) ==
    { NoContext, NoCredentialContext(country) } \cup
    { Resolve(country, o).value : o \in Outcomes }

InitScorer ==
    \E country \in ScorerCountries, writing \in CertWritings,
       profile \in { "plain", "worst" } :
        LET row == SupplierRow(country, writing, profile)
        IN  \E ctx \in ContextsFor(RowGet(row, "Country", <<"X","X">>)) :
                scorer = [pc |-> "input", written |-> writing,
                          supplier_row |-> row, external_context |-> ctx]

\* lines 341-345, 509-510: score one supplier, then derive its level
ScoreSupplier ==
    /\ scorer.pc = "input"
    /\ LET risk_score == calculate_overall_risk_score(scorer.supplier_row,
                                                      scorer.external_context)
       IN  scorer' = [pc |-> "scored",
                      written |-> scorer.written,
                      supplier_row |-> scorer.supplier_row,
                      external_context |-> scorer.external_context,
                      sub_risks |-> SubRisks(scorer.supplier_row,
                                             scorer.external_context),
                      risk_score |-> risk_score,
                      risk_level |-> get_risk_level(risk_score)]
    /\ UNCHANGED <<resolverVars, leveler, portalVars>>

NextScorer == ScoreSupplier

InitScoring ==
    /\ InitResolver
    /\ InitScorer
    /\ leveler = [pc |-> "idle"]
    /\ InitPortalIdle

SpecScorer == InitScoring /\ [][NextScorer]_vars

\* scores at, just below and just above each threshold and each end of [0, 1]
ProbeScores == { k * One + d : k \in {0, 25, 50, 75, 100}, d \in {0 - 1, 0, 1} }

InitLeveler ==
    \E a \in ProbeScores, b \in ProbeScores :
        leveler = [pc |-> "input", a |-> a, b |-> b]

\* lines 345, 432, 678: df['Risk_Score'].apply(get_risk_level), two rows
ApplyRiskLevel ==
    /\ leveler.pc = "input"
    /\ leveler' = [pc |-> "done", a |-> leveler.a, b |-> leveler.b,
                   level_a |-> get_risk_level(leveler.a),
                   level_b |-> get_risk_level(leveler.b)]
    /\ UNCHANGED <<resolverVars, scorer, portalVars>>

NextLevel == ApplyRiskLevel

InitLevel ==
    /\ InitResolver
    /\ scorer = [pc |-> "idle"]
    /\ InitLeveler
    /\ InitPortalIdle

SpecLevel == InitLevel /\ [][NextLevel]_vars

----------------------------------------------------------------------------
(* Data collection portal, data_collection.py.                             *)
(*                                                                         *)
(* Every interaction runs the script from its first line: it reads the     *)
(* table file, applies the pressed button, and renders the page.  One      *)
(* action is one script run.  Time is counted in ticks of half a day; all  *)
(* clock reads of one script run fall into the same tick.  The strings of  *)
(* the portal are literals (one-element sequences); a date is the pair of  *)
(* its kind and its day number.                                            *)

\* half days: the clock values k * TicksPerDay are the midnights
TicksPerDay == 2

\* a datetime.date of the date inputs
date(day) == << "date", day >>

\* str(x) of a date, a missing cell, or a str
str(x) ==
    IF Len(x) = 2 /\ x[1] = "date" THEN << "YYYY-MM-DD", x[2] >>
    ELSE IF x = NaN THEN << "n", "a", "n" >>
    ELSE x

\* pd.Timestamp(text) of a YYYY-MM-DD text: the midnight starting that day
Timestamp(text) == text[2] * TicksPerDay

\* timedelta.days: whole days, rounded down
Days(delta) == delta \div TicksPerDay

\* datetime.now().isoformat() at clock value t
isoformat(t) == << "YYYY-MM-DDTHH:MM:SS", t >>

\* datetime.fromisoformat(text).timestamp()
fromisoformat(text) == text[2]

\* the bool cells as pandas writes them
True == << "True" >>

False == << "False" >>

\* truth value of a cell: NaN and non-empty strings are true
CellTruthy(cell) == cell # False /\ cell # None /\ cell # <<>>

\* pd.read_csv with its default type inference.  An empty field is read as
\* NaN.  A field of digits is the text << "digits", z, n >>: the decimal
\* writing of n after z zeros; << "digits.0", z, n >> is that text followed
\* by ".0".  A column whose fields are all digits is read as int64, one of
\* digits, decimals and empty fields as float64; the fields of any other
\* column are kept as the texts they are.
read_csv(file) ==
    LET Digits(x) == Len(x) = 3 /\ x[1] = "digits"
        Number(x) == Len(x) = 3 /\ x[1] \in { "digits", "digits.0" }
        Parsed(c, x) ==
            IF \A k \in DOMAIN file : Digits(file[k][c]) THEN << "int64", x[3] >>
            ELSE IF \A k \in DOMAIN file : file[k][c] = <<>> \/ Number(file[k][c])
            THEN << "float64", x[3] >>
            ELSE x
    IN  [i \in DOMAIN file |->
            [c \in DOMAIN file[i] |->
                IF file[i][c] = <<>> THEN NaN
                ELSE IF Number(file[i][c]) THEN Parsed(c, file[i][c])
                ELSE file[i][c]]]

\* df.to_csv(index=False): NaN and None are written as empty fields, an
\* int64 as its decimal writing, a float64 of integral value with ".0"
to_csv(df) ==
    [i \in DOMAIN df |->
        [c \in DOMAIN df[i] |->
            LET x == df[i][c]
            IN  IF IsNa(x) THEN <<>>
                ELSE IF Len(x) = 2 /\ x[1] = "int64" THEN << "digits", 0, x[2] >>
                ELSE IF Len(x) = 2 /\ x[1] = "float64" THEN << "digits.0", 0, x[2] >>
                ELSE x]]

\* df[df['name'] == supplier].index
Matches(df, supplier) == { i \in DOMAIN df : df[i].name = supplier }

\* df[df['name'] == supplier].index[0]
index0(df, supplier) ==
    CHOOSE i \in Matches(df, supplier) : \A j \in Matches(df, supplier) : i <= j

\* df.at[idx, column] = value
at(df, idx, column, value) == [df EXCEPT ![idx][column] = value]

\* sorted(df['name'].unique()), the options of the supplier selectbox
SupplierOptions(df) == { df[i].name : i \in DOMAIN df }

\* lines 74-80 and 445-451
cert_col_map ==
    (<<"GRS">> :> "grs_expiry") @@ (<<"ZDHC">> :> "zdhc_expiry") @@
    (<<"GOTS">> :> "gots_expiry") @@ (<<"RWS">> :> "rwas_expiry") @@
    (<<"WRAP GOLD">> :> "wrap_expiry")

\* json.dumps(log_entry) + '\n' written in full
json_dumps(log_entry) == [complete |-> TRUE, json |-> log_entry]

\* a line whose write was cut short: a proper prefix of the dump
TornLine(log_entry) == [complete |-> FALSE, json |-> log_entry]

\* every write opens the log afresh, so it holds the new line only
AppendLineTruncating(log, line) == [exists |-> TRUE, lines |-> << line >>]

\* lines 101-106, 227-232, 359-364, 488-493: mode 'a' if the file exists,
\* else mode 'w'
AppendLine(log, line) ==
    IF log.exists
    THEN [exists |-> TRUE, lines |-> Append(log.lines, line)]
    ELSE [exists |-> TRUE, lines |-> << line >>]

\* line 121
CertificationStatus(days_left) ==
    IF days_left > 30 THEN "Valid"
    ELSE IF days_left > 0 THEN "Expiring Soon"
    ELSE "Expired"

\* lines 119-127: one row of the Current Certifications table
CertificationRow(supplier_data, cert_name, now) ==
    LET expiry == Timestamp(supplier_data[cert_col_map[cert_name]])
        days_left == Days(expiry - now)
    IN  [Type |-> cert_name,
         Expiry |-> supplier_data[cert_col_map[cert_name]],
         Days_Left |-> days_left,
         Status |-> CertificationStatus(days_left)]

\* lines 114-127: the certifications whose expiry cell is not empty, in the
\* order of the keys of cert_col_map
CurrentCertifications(df, supplier, now) ==
    LET supplier_data == df[index0(df, supplier)]
        CertTypes == << <<"GRS">>, <<"ZDHC">>, <<"GOTS">>, <<"RWS">>, <<"WRAP GOLD">> >>
        held == SelectSeq(CertTypes,
                          LAMBDA c : ~IsNa(supplier_data[cert_col_map[c]]))
    IN  [i \in 1..Len(held) |-> CertificationRow(supplier_data, held[i], now)]

\* log lines the file may hold at most
MaxLogLines == 2

\* the variables of the dashboard
appVars == <<resolverVars, scorer, leveler>>

\* one supplier of the table
TableRow(name, country, certifications, grs, gots, last_audit, status, has_incidents, incident_type) ==
    [name |-> name, country |-> country, certifications |-> certifications,
     grs_expiry |-> grs, zdhc_expiry |-> <<>>, gots_expiry |-> gots,
     rwas_expiry |-> <<>>, wrap_expiry |-> <<>>,
     last_audit_date |-> last_audit, audit_status |-> status,
     next_audit_date |-> <<>>,
     has_incidents |-> has_incidents, incident_type |-> incident_type]

\* the table at the start of a run: A holds GOTS, passed its audit and has no
\* incident; B holds GRS, awaits its audit and has an incident.  The postal
\* codes are 00187 and 200000
InitialTable ==
    << ("postal_code" :> << "digits", 2, 187 >>) @@
       TableRow(<<"A">>, <<"I","T">>, GOTS, <<>>, str(date(30)), str(date(4)), <<"Passed">>,
                False, <<>>),
       ("postal_code" :> << "digits", 0, 200000 >>) @@
       TableRow(<<"B">>, <<"C","N">>, GRS, str(date(60)), <<>>, str(date(5)), <<"Pending">>,
                True, <<"Quality Issue">>) >>

----------------------------------------------------------------------------
(* Mode 1, Certification Updates *)

\* lines 89-98
CertificationLogEntry(now, supplier, cert_type, expiry_date) ==
    [timestamp |-> isoformat(now), action |-> <<"certification_update">>,
     supplier |-> supplier, cert_type |-> cert_type,
     expiry_date |-> str(expiry_date), issue_date |-> None,
     notes |-> <<>>, file_uploaded |-> False]

\* lines 29-130 with the button "Save Certification" pressed
SaveCertification ==
    \E supplier \in SupplierOptions(read_csv(suppliers_full_data)),
       cert_type \in { <<"GOTS">>, <<"RWS">> }, expiry_date \in { date(40) } :
        LET df == read_csv(suppliers_full_data)
            supplier_idx == index0(df, supplier)
            saved == at(df, supplier_idx, cert_col_map[cert_type], str(expiry_date))
            log_entry == CertificationLogEntry(clock, supplier, cert_type, expiry_date)
        IN  /\ Len(data_log.lines) < MaxLogLines
            /\ suppliers_full_data' = to_csv(saved)
            /\ data_log' = AppendLine(data_log, json_dumps(log_entry))
            /\ clock' = clock + 1
            /\ page' = [mode |-> "Certification Updates", pressed |-> TRUE,
                        supplier |-> supplier, raised |-> NoExc,
                        cert_data |-> CurrentCertifications(saved, supplier, clock)]
            /\ UNCHANGED appVars

\* lines 29-130 with no button pressed
ViewCertifications ==
    \E supplier \in SupplierOptions(read_csv(suppliers_full_data)) :
        LET df == read_csv(suppliers_full_data)
        IN  /\ page' = [mode |-> "Certification Updates", pressed |-> FALSE,
                        supplier |-> supplier, raised |-> NoExc,
                        cert_data |-> CurrentCertifications(df, supplier, clock)]
            /\ UNCHANGED <<suppliers_full_data, data_log, clock, appVars>>

----------------------------------------------------------------------------
(* Mode 2, Audit Scheduling *)

\* lines 164-168
AuditStatusOptions == { <<"Passed">>, <<"Pending">>, <<"Failed">> }

\* the results saved, each with the next audit scheduled or left open
AuditInputs ==
    { << <<"Passed">>, date(50) >>, << <<"Pending">>, None >>, << <<"Failed">>, None >> }

\* lines 214-225
AuditLogEntry(now, supplier, audit_date, audit_status, next_audit_date) ==
    [timestamp |-> isoformat(now), action |-> <<"audit_update">>,
     supplier |-> supplier, audit_type |-> <<"Certification Audit">>,
     audit_date |-> str(audit_date), status |-> audit_status,
     auditor |-> <<>>,
     next_audit |-> IF next_audit_date # None THEN str(next_audit_date) ELSE None,
     corrective_action |-> IF audit_status = <<"Failed">> THEN <<>> ELSE None,
     findings |-> <<>>]

\* lines 140-250 with the button "Save Audit Record" pressed
SaveAuditRecord ==
    \E supplier \in SupplierOptions(read_csv(suppliers_full_data)),
       audit_date \in { date(10) }, input \in AuditInputs :
        LET audit_status == input[1]
            next_audit_date == input[2]
            df == read_csv(suppliers_full_data)
            supplier_idx == index0(df, supplier)
            dated == at(df, supplier_idx, "last_audit_date", str(audit_date))
            graded == at(dated, supplier_idx, "audit_status", audit_status)
            saved == IF next_audit_date # None
                     THEN at(graded, supplier_idx, "next_audit_date",
                             str(next_audit_date))
                     ELSE graded
            log_entry == AuditLogEntry(clock, supplier, audit_date, audit_status,
                                       next_audit_date)
        IN  /\ audit_status \in AuditStatusOptions
            /\ Len(data_log.lines) < MaxLogLines
            /\ suppliers_full_data' = to_csv(saved)
            /\ data_log' = AppendLine(data_log, json_dumps(log_entry))
            /\ clock' = clock + 1
            /\ page' = [mode |-> "Audit Scheduling", pressed |-> TRUE,
                        supplier |-> supplier, raised |-> NoExc,
                        status |-> saved[supplier_idx].audit_status]
            /\ UNCHANGED appVars

----------------------------------------------------------------------------
(* Mode 3, Incident Reporting *)

\* lines 345-357
IncidentLogEntry(now, supplier, incident_type) ==
    [timestamp |-> isoformat(now), action |-> <<"incident_report">>,
     supplier |-> supplier, incident_date |-> str(date(now \div TicksPerDay)),
     incident_type |-> incident_type, severity |-> <<"Low">>,
     description |-> <<>>, source |-> <<"Internal Report">>,
     source_url |-> <<>>, status |-> <<"Open">>, resolution |-> None]

\* lines 258-388, one run of the page.  save_incident and clear_incident are
\* the values of the two buttons; supplier_idx is bound by line 339 only, so
\* line 382 raises NameError in a run where "Report Incident" is not pressed.
IncidentReporting(supplier, incident_type, save_incident, clear_incident) ==
    LET df == read_csv(suppliers_full_data)
        supplier_idx == index0(df, supplier)
        reported == IF save_incident
                    THEN at(at(df, supplier_idx, "has_incidents", True),
                            supplier_idx, "incident_type", incident_type)
                    ELSE df
        supplier_data == reported[index0(reported, supplier)]
        offered == CellTruthy(supplier_data.has_incidents)
        clearing == offered /\ clear_incident
        cleared == at(at(reported, supplier_idx, "has_incidents", False),
                      supplier_idx, "incident_type", None)
    IN  /\ save_incident => Len(data_log.lines) < MaxLogLines
        \* a pressed "Clear Incident Flag" was on the page rendered before
        /\ clear_incident => CellTruthy(df[supplier_idx].has_incidents)
        /\ suppliers_full_data' =
               IF clearing /\ save_incident THEN to_csv(cleared)
               ELSE IF save_incident THEN to_csv(reported)
               ELSE suppliers_full_data
        /\ data_log' =
               IF save_incident
               THEN AppendLine(data_log,
                               json_dumps(IncidentLogEntry(clock, supplier,
                                                           incident_type)))
               ELSE data_log
        /\ clock' = IF save_incident THEN clock + 1 ELSE clock
        /\ page' = [mode |-> "Incident Reporting", supplier |-> supplier,
                    save_incident |-> save_incident,
                    clear_incident |-> clear_incident,
                    raised |-> IF clearing /\ ~save_incident
                               THEN Exc("NameError",
                                        <<"name 'supplier_idx' is not defined">>)
                               ELSE NoExc]
        /\ UNCHANGED appVars

\* the button "Report Incident" pressed
ReportIncident ==
    \E supplier \in SupplierOptions(read_csv(suppliers_full_data)),
       incident_type \in { <<"Labor Violation">> } :
        IncidentReporting(supplier, incident_type, TRUE, FALSE)

\* the button "Clear Incident Flag" pressed
ClearIncidentFlag ==
    \E supplier \in SupplierOptions(read_csv(suppliers_full_data)),
       incident_type \in { <<"Labor Violation">> } :
        IncidentReporting(supplier, incident_type, FALSE, TRUE)

\* both buttons pressed before the script ran again: one run sees both
ReportAndClearIncident ==
    \E supplier \in SupplierOptions(read_csv(suppliers_full_data)),
       incident_type \in { <<"Labor Violation">> } :
        IncidentReporting(supplier, incident_type, TRUE, TRUE)

----------------------------------------------------------------------------
(* Mode 4, Bulk Upload *)

\* one line of an uploaded CSV file with the columns of lines 399-406
UploadRow(supplier_name, cert_type, expiry_date, audit_status, incident_flag, incident_type) ==
    [supplier_name |-> supplier_name, cert_type |-> cert_type,
     expiry_date |-> expiry_date, audit_date |-> <<>>,
     audit_status |-> audit_status, next_audit_date |-> <<>>,
     incident_flag |-> incident_flag, incident_type |-> incident_type]

\* the uploaded files.  Their rows: a certification of A; an audit status of
\* B that the portal does not offer; an incident flag of A without an incident
\* type; a certification of Z, which the table does not hold; a row without a
\* supplier name
Uploads ==
    LET RowCertA == UploadRow(<<"A">>, <<"GOTS">>, str(date(70)), <<>>, <<>>, <<>>)
        RowAuditB == UploadRow(<<"B">>, <<>>, <<>>, <<"Unknown">>, <<>>, <<>>)
        RowFlagA == UploadRow(<<"A">>, <<>>, <<>>, <<>>, True, <<>>)
        RowCertZ == UploadRow(<<"Z">>, <<"GRS">>, str(date(70)), <<>>, <<>>, <<>>)
        RowNoName == UploadRow(<<>>, <<"GRS">>, str(date(70)), <<>>, <<>>, <<>>)
    IN  { << RowFlagA >>, << RowCertA, RowAuditB >>,
          << RowCertZ >>, << RowCertA, RowCertZ, RowNoName >> }

\* the validation that looks at the first row only
ValidationErrorsFirstRow(upload_df, current_df, idx) ==
    IF idx > 0 \/ Len(upload_df) = 0 THEN <<>>
    ELSE IF upload_df[1].supplier_name \notin SupplierOptions(current_df)
         THEN << [row |-> idx + 2, supplier |-> upload_df[1].supplier_name] >>
         ELSE <<>>

\* lines 428-434: the rows from position idx on, one error per row whose
\* supplier is not in the table
RECURSIVE ValidationErrors(_, _, _)
ValidationErrors(upload_df, current_df, idx) ==
    IF Len(upload_df) = 0 THEN <<>>
    ELSE (IF upload_df[1].supplier_name \notin SupplierOptions(current_df)
          THEN << [row |-> idx + 2, supplier |-> upload_df[1].supplier_name] >>
          ELSE <<>>)
         \o ValidationErrors(Tail(upload_df), current_df, idx + 1)

\* lines 481-486
BulkLogEntry(now, supplier, row) ==
    [timestamp |-> isoformat(now), action |-> <<"bulk_upload">>,
     supplier |-> supplier, data |-> row]

\* lines 457-478: the cells one row sets
ApplyRow(current_df, supplier_idx, row) ==
    LET certified ==
            IF ~IsNa(row.cert_type) /\ row.cert_type \in DOMAIN cert_col_map
                                    /\ ~IsNa(row.expiry_date)
            THEN at(current_df, supplier_idx, cert_col_map[row.cert_type],
                    str(row.expiry_date))
            ELSE current_df
        dated ==
            IF ~IsNa(row.audit_date)
            THEN at(certified, supplier_idx, "last_audit_date", str(row.audit_date))
            ELSE certified
        graded ==
            IF ~IsNa(row.audit_status)
            THEN at(dated, supplier_idx, "audit_status", row.audit_status)
            ELSE dated
        scheduled ==
            IF ~IsNa(row.next_audit_date)
            THEN at(graded, supplier_idx, "next_audit_date",
                    str(row.next_audit_date))
            ELSE graded
        flagged ==
            IF ~IsNa(row.incident_flag)
            THEN at(scheduled, supplier_idx, "has_incidents", row.incident_flag)
            ELSE scheduled
    IN  IF ~IsNa(row.incident_type)
        THEN at(flagged, supplier_idx, "incident_type", row.incident_type)
        ELSE flagged

\* lines 453-493: the loop over the uploaded rows; line 455 raises IndexError
\* for a supplier the table does not hold
RECURSIVE ProcessRows(_, _, _, _)
ProcessRows(upload_df, current_df, log, now) ==
    IF Len(upload_df) = 0
    THEN [current_df |-> current_df, log |-> log, raised |-> NoExc]
    ELSE LET row == upload_df[1]
             supplier == row.supplier_name
         IN  IF Matches(current_df, supplier) = {}
             THEN [current_df |-> current_df, log |-> log,
                   raised |-> Exc("IndexError",
                                  <<"index 0 is out of bounds for axis 0 with size 0">>)]
             ELSE ProcessRows(Tail(upload_df),
                              ApplyRow(current_df, index0(current_df, supplier), row),
                              AppendLine(log, json_dumps(BulkLogEntry(now, supplier, row))),
                              now)

\* lines 415-497, one run of the page with a file uploaded; process_bulk is
\* the value of the button "Process Upload", which is on the page only when
\* the validation found no error
BulkUpload(uploaded_file, process_bulk) ==
    LET upload_df == read_csv(uploaded_file)
        current_df == read_csv(suppliers_full_data)
        errors == ValidationErrors(upload_df, current_df, 0)
        processing == errors = <<>> /\ process_bulk
        done == ProcessRows(upload_df, current_df, data_log, clock)
    IN  /\ process_bulk => errors = <<>>
        /\ processing => Len(data_log.lines) + Len(upload_df) <= MaxLogLines
        /\ suppliers_full_data' =
               IF processing /\ done.raised = NoExc THEN to_csv(done.current_df)
               ELSE suppliers_full_data
        /\ data_log' = IF processing THEN done.log ELSE data_log
        /\ clock' = IF processing THEN clock + 1 ELSE clock
        /\ page' = [mode |-> "Bulk Upload", uploaded_file |-> uploaded_file,
                    process_bulk |-> processing, errors |-> errors,
                    raised |-> IF processing THEN done.raised ELSE NoExc]
        /\ UNCHANGED appVars

\* a file is uploaded, or the page runs again with it: validation and preview
ValidateUpload == \E uploaded_file \in Uploads : BulkUpload(uploaded_file, FALSE)

\* the button "Process Upload" pressed
ProcessUpload == \E uploaded_file \in Uploads : BulkUpload(uploaded_file, TRUE)

----------------------------------------------------------------------------
(* Mode 5, Data History *)

\* line 550: filtered[:50]
DisplayCap == 50

\* lines 507-510: json.loads of every line, in file order; the first line
\* that is not a JSON document raises JSONDecodeError
LoadActivities(lines) ==
    IF \E i \in DOMAIN lines : ~lines[i].complete
    THEN [raised |-> Exc("JSONDecodeError", <<"Expecting value">>),
          activities |-> <<>>]
    ELSE [raised |-> NoExc, activities |-> [i \in DOMAIN lines |-> lines[i].json]]

\* list.reverse()
Reverse(s) == [i \in 1..Len(s) |-> s[Len(s) + 1 - i]]

\* lines 536-545: the three filters
Filtered(activities, action_filter, supplier_filter, days_back, now) ==
    LET cutoff_date == now - days_back * TicksPerDay
        Kept(a) ==
            /\ action_filter # <<"All">> => a.action = action_filter
            /\ supplier_filter # <<"All">> => a.supplier = supplier_filter
            /\ fromisoformat(a.timestamp) > cutoff_date
    IN  SelectSeq(activities, Kept)

\* line 528: the options of the supplier filter
SupplierFilterOptions(activities) ==
    { <<"All">> } \cup { activities[i].supplier : i \in DOMAIN activities }

\* lines 505-579, one run of the page
DataHistory(action_filter, supplier_filter, days_back) ==
    LET loaded == LoadActivities(data_log.lines)
        activities == Reverse(loaded.activities)
        filtered == Filtered(activities, action_filter, supplier_filter,
                             days_back, clock)
    IN  /\ (data_log.exists /\ loaded.raised = NoExc) =>
               supplier_filter \in SupplierFilterOptions(activities)
        /\ page' =
               IF ~data_log.exists
               THEN [mode |-> "Data History", raised |-> NoExc,
                     action_filter |-> action_filter,
                     supplier_filter |-> supplier_filter,
                     activities |-> <<>>, shown |-> <<>>]
               ELSE IF loaded.raised # NoExc
               THEN [mode |-> "Data History", raised |-> loaded.raised,
                     action_filter |-> action_filter,
                     supplier_filter |-> supplier_filter,
                     activities |-> <<>>, shown |-> <<>>]
               ELSE [mode |-> "Data History", raised |-> NoExc,
                     action_filter |-> action_filter,
                     supplier_filter |-> supplier_filter,
                     activities |-> activities,
                     shown |-> Slice(filtered, 0, DisplayCap)]
        /\ UNCHANGED <<suppliers_full_data, data_log, clock, appVars>>

\* the page with the default filters
ViewHistory == DataHistory(<<"All">>, <<"All">>, 30)

----------------------------------------------------------------------------
(* The portal in use: any sequence of script runs on the initial table *)

InitEntry ==
    /\ InitResolver /\ ~OPENAI_API_KEY
    /\ scorer = [pc |-> "idle"]
    /\ leveler = [pc |-> "idle"]
    /\ suppliers_full_data = InitialTable
    /\ data_log = [exists |-> FALSE, lines |-> <<>>]
    /\ clock \in { 20 * TicksPerDay + 1 }
    /\ page = [mode |-> "idle"]

NextEntry ==
    \/ SaveCertification
    \/ SaveAuditRecord
    \/ ReportIncident
    \/ ClearIncidentFlag
    \/ ReportAndClearIncident
    \/ ValidateUpload
    \/ ProcessUpload
    \/ ViewHistory

SpecEntry == InitEntry /\ [][NextEntry]_vars

----------------------------------------------------------------------------
(* The portal's file writes one at a time.  A script run that saves data    *)
(* writes two files; between the writes the files are as a reader of them,  *)
(* or a run that stops there, finds them.  page holds the position of the   *)
(* run in flight (pc) and its local values; a button is pressed only when   *)
(* the run before has ended.  "Clear Incident Flag" appends no line and is  *)
(* left out.                                                                *)

\* lines 82-86: "Save Certification" up to the table write
PersistCertification ==
    \E supplier \in SupplierOptions(read_csv(suppliers_full_data)),
       cert_type \in { <<"GOTS">>, <<"RWS">> }, expiry_date \in { date(40) } :
        LET df == read_csv(suppliers_full_data)
            supplier_idx == index0(df, supplier)
            saved == at(df, supplier_idx, cert_col_map[cert_type], str(expiry_date))
        IN  /\ ~(page.mode # "idle" /\ page.pc # "done")
            /\ Len(data_log.lines) < MaxLogLines
            /\ suppliers_full_data' = to_csv(saved)
            /\ page' = [mode |-> "Certification Updates", pc |-> "log",
                        log_entry |-> CertificationLogEntry(clock, supplier, cert_type,
                                                            expiry_date)]
            /\ UNCHANGED <<data_log, clock, appVars>>

\* lines 205-211: "Save Audit Record" up to the table write
PersistAuditRecord ==
    \E supplier \in SupplierOptions(read_csv(suppliers_full_data)),
       audit_date \in { date(10) }, input \in AuditInputs :
        LET audit_status == input[1]
            next_audit_date == input[2]
            df == read_csv(suppliers_full_data)
            supplier_idx == index0(df, supplier)
            dated == at(df, supplier_idx, "last_audit_date", str(audit_date))
            graded == at(dated, supplier_idx, "audit_status", audit_status)
            saved == IF next_audit_date # None
                     THEN at(graded, supplier_idx, "next_audit_date",
                             str(next_audit_date))
                     ELSE graded
        IN  /\ ~(page.mode # "idle" /\ page.pc # "done")
            /\ Len(data_log.lines) < MaxLogLines
            /\ suppliers_full_data' = to_csv(saved)
            /\ page' = [mode |-> "Audit Scheduling", pc |-> "log",
                        log_entry |-> AuditLogEntry(clock, supplier, audit_date,
                                                    audit_status, next_audit_date)]
            /\ UNCHANGED <<data_log, clock, appVars>>

\* lines 337-342: "Report Incident" up to the table write
PersistIncident ==
    \E supplier \in SupplierOptions(read_csv(suppliers_full_data)),
       incident_type \in { <<"Labor Violation">> } :
        LET df == read_csv(suppliers_full_data)
            supplier_idx == index0(df, supplier)
            reported == at(at(df, supplier_idx, "has_incidents", True),
                           supplier_idx, "incident_type", incident_type)
        IN  /\ ~(page.mode # "idle" /\ page.pc # "done")
            /\ Len(data_log.lines) < MaxLogLines
            /\ suppliers_full_data' = to_csv(reported)
            /\ page' = [mode |-> "Incident Reporting", pc |-> "log",
                        log_entry |-> IncidentLogEntry(clock, supplier, incident_type)]
            /\ UNCHANGED <<data_log, clock, appVars>>

\* lines 100-106, 227-232 and 359-364: the entry built by the run is appended
AppendLogEntry ==
    /\ page.mode # "idle" /\ page.pc = "log"
    /\ data_log' = AppendLine(data_log, json_dumps(page.log_entry))
    /\ clock' = clock + 1
    /\ page' = [mode |-> page.mode, pc |-> "done"]
    /\ UNCHANGED <<suppliers_full_data, appVars>>

\* lines 415-451: "Process Upload" pressed on a file that passed validation
BeginProcessUpload ==
    \E uploaded_file \in Uploads :
        LET upload_df == read_csv(uploaded_file)
            current_df == read_csv(suppliers_full_data)
        IN  /\ ~(page.mode # "idle" /\ page.pc # "done")
            /\ ValidationErrors(upload_df, current_df, 0) = <<>>
            /\ Len(data_log.lines) + Len(upload_df) <= MaxLogLines
            /\ page' = [mode |-> "Bulk Upload", pc |-> "row", rows |-> upload_df,
                        current_df |-> current_df]
            /\ UNCHANGED <<suppliers_full_data, data_log, clock, appVars>>

\* lines 453-493, one pass of the loop: the row is applied to the table in
\* memory and its entry is appended to the log file
ProcessUploadRow ==
    /\ page.mode = "Bulk Upload" /\ page.pc = "row" /\ page.rows # <<>>
    /\ LET row == page.rows[1]
           supplier == row.supplier_name
       IN  IF Matches(page.current_df, supplier) = {}
           THEN /\ page' = [mode |-> page.mode, pc |-> "done"]
                /\ UNCHANGED data_log
           ELSE /\ data_log' = AppendLine(data_log,
                                         json_dumps(BulkLogEntry(clock, supplier, row)))
                /\ page' = [page EXCEPT
                               !.rows = Tail(page.rows),
                               !.current_df =
                                   ApplyRow(page.current_df,
                                            index0(page.current_df, supplier), row)]
    /\ UNCHANGED <<suppliers_full_data, clock, appVars>>

\* line 495: after the last row the table in memory is written to the file
PersistUpload ==
    /\ page.mode = "Bulk Upload" /\ page.pc = "row" /\ page.rows = <<>>
    /\ suppliers_full_data' = to_csv(page.current_df)
    /\ clock' = clock + 1
    /\ page' = [mode |-> page.mode, pc |-> "done"]
    /\ UNCHANGED <<data_log, appVars>>

NextWrites ==
    \/ PersistCertification
    \/ PersistAuditRecord
    \/ PersistIncident
    \/ AppendLogEntry
    \/ BeginProcessUpload
    \/ ProcessUploadRow
    \/ PersistUpload

SpecWrites == InitEntry /\ [][NextWrites]_vars

----------------------------------------------------------------------------
(* The history page on any log file *)

\* lines a log file under test holds at most (the long log apart)
MaxHistoryLines == 3

RECURSIVE SeqsOfLen(_, _)
SeqsOfLen(S, k) ==
    IF k = 0 THEN { <<>> }
    ELSE { Append(s, x) : s \in SeqsOfLen(S, k - 1), x \in S }

\* The log files read at clock value 100 days.  Their lines are entries
\* written 35 days, a day and a half, and half a day earlier, and one line cut
\* short; the long file has more entries of A than the page shows, one per
\* tick, its second line an entry of B.  No order of the lines is assumed:
\* datetime.now() is the local wall clock, which is set back at the end of
\* daylight saving time and by corrections.
HistoryLogs ==
    LET HistoryEntry(t, supplier) ==
            CertificationLogEntry(t, supplier, <<"GOTS">>, date(300))
        HistoryTimes ==
            { 65 * TicksPerDay, 100 * TicksPerDay - 3, 100 * TicksPerDay - 1 }
        HistoryLines ==
            { json_dumps(HistoryEntry(t, s)) : t \in HistoryTimes, s \in { <<"A">>, <<"B">> } }
            \cup { TornLine(HistoryEntry(100 * TicksPerDay - 1, <<"A">>)) }
        LongLog ==
            [i \in 1..(DisplayCap + 2) |->
                json_dumps(HistoryEntry(100 * TicksPerDay - (DisplayCap + 3) + i,
                                        IF i = 2 THEN <<"B">> ELSE <<"A">>))]
    IN  { [exists |-> FALSE, lines |-> <<>>] } \cup
        { [exists |-> TRUE, lines |-> l] :
            l \in { LongLog } \cup
                  UNION { SeqsOfLen(HistoryLines, k) : k \in 0..MaxHistoryLines } }

InitHistory ==
    /\ InitResolver /\ ~OPENAI_API_KEY
    /\ scorer = [pc |-> "idle"]
    /\ leveler = [pc |-> "idle"]
    /\ suppliers_full_data = InitialTable
    /\ data_log \in HistoryLogs
    /\ clock \in { 100 * TicksPerDay }
    /\ page = [mode |-> "idle"]

\* lines 519-533: the filters chosen on the page
QueryHistory ==
    \E action_filter \in { <<"All">>, <<"audit_update">> },
       supplier_filter \in { <<"All">>, <<"A">>, <<"B">> },
       days_back \in { 1, 30 } :
        DataHistory(action_filter, supplier_filter, days_back)

SpecHistory == InitHistory /\ [][QueryHistory]_vars

----------------------------------------------------------------------------
(* The certification pages at any distance from the expiry dates *)

\* lines 158-168 of app.py
column_mapping(column) ==
    CASE column = "name" -> "Name"
      [] column = "category" -> "Supplier Category"
      [] column = "city" -> "City"
      [] column = "country" -> "Country"
      [] column = "certifications" -> "Supplier certifications"
      [] column = "employees" -> "Number of employees"
      [] column = "production_capacity" -> "Production capacity"
      [] column = "address" -> "Company address"
      [] column = "postal_code" -> "Postal code"
      [] OTHER -> column

\* lines 156-172 of app.py
load_supplier_data(file) ==
    LET df == read_csv(file)
    IN  [i \in DOMAIN df |->
            [c \in { column_mapping(k) : k \in DOMAIN df[i] } |->
                df[i][CHOOSE k \in DOMAIN df[i] : column_mapping(k) = c]]]

\* lines 627-634 of app.py: the rows of one supplier
RECURSIVE TrackerRows(_, _)
TrackerRows(row, certs) ==
    IF Len(certs) = 0 THEN <<>>
    ELSE (IF Strip(certs[1]) # <<>>
          THEN << [Supplier |-> row["Name"], Country |-> row["Country"],
                   Certification |-> Strip(certs[1]), Status |-> "Valid"] >>
          ELSE <<>>)
         \o TrackerRows(row, Tail(certs))

\* lines 624-634 of app.py: all_certs of the rows from position idx on
RECURSIVE AllCerts(_, _)
AllCerts(df, idx) ==
    IF idx > Len(df) THEN <<>>
    ELSE TrackerRows(df[idx],
                     Split(str(RowGet(df[idx], "Supplier certifications", <<>>)), ","))
         \o AllCerts(df, idx + 1)

\* lines 618-652 of app.py, one render of the page Certification Tracker
show_certification_tracker ==
    /\ page' = [mode |-> "Certification Tracker", raised |-> NoExc,
                all_certs |-> AllCerts(load_supplier_data(suppliers_full_data), 1)]
    /\ UNCHANGED <<suppliers_full_data, data_log, clock, appVars>>

\* the table read at midnight and at noon of day 20, with the expiry dates
\* at distances from that day around the limits 0, 30 and 90
InitCertStatus ==
    /\ InitResolver /\ ~OPENAI_API_KEY
    /\ scorer = [pc |-> "idle"]
    /\ leveler = [pc |-> "idle"]
    /\ \E grs \in { 0 - 1, 0, 1, 29, 30, 31, 89, 90, 91 },
          gots \in { 0 - 1, 0, 1, 29, 30, 31, 89, 90, 91 } :
           suppliers_full_data =
               << TableRow(<<"A">>, <<"I","T">>, GRS \o <<",", " ">> \o GOTS,
                           str(date(20 + grs)), str(date(20 + gots)),
                           str(date(4)), <<"Passed">>, False, <<>>) >>
    /\ data_log = [exists |-> FALSE, lines |-> <<>>]
    /\ clock \in { 20 * TicksPerDay, 20 * TicksPerDay + 1 }
    /\ page = [mode |-> "idle"]

NextCertStatus ==
    \/ ViewCertifications
    \/ show_certification_tracker

SpecCertStatus == InitCertStatus /\ [][NextCertStatus]_vars

----------------------------------------------------------------------------
(* Claims about get_external_context *)

Called == last.path # "none"

ReturnedValue == Called /\ ~last.raised

HasScores(v) ==
    /\ "geopolitical_score" \in DOMAIN v /\ v["geopolitical_score"] \in Int
    /\ "environmental_score" \in DOMAIN v /\ v["environmental_score"] \in Int

ScoresInRange(v) ==
    /\ HasScores(v)
    /\ v["geopolitical_score"] >= 0 /\ v["geopolitical_score"] <= One
    /\ v["environmental_score"] >= 0 /\ v["environmental_score"] <= One

\* C1: every call returns the value first returned for its cache key (so any
\* two calls whose pairs agree up to letter case return identical values),
\* and no cache key sees more than one external request.
C1_IdempotentPerKey ==
    /\ ReturnedValue => last.value = firstByKey[last.cache_key]
    /\ \A k \in DOMAIN apiCalls : apiCalls[k] <= 1

\* C2: after any call returns, its cache key holds the returned value.
C2_ReturnedValueIsCached ==
    ReturnedValue =>
        /\ last.cache_key \in DOMAIN cache
        /\ cache[last.cache_key] = last.value

\* C3: a call never raises; whatever the external source did, it returns a
\* context carrying both scores.
C3_NeverRaises == Called => ~last.raised /\ HasScores(last.value)

\* C3 witness: a response object whose score is null made float() raise a
\* TypeError, which the inner handler does not catch, and the call returned.
C3_Witness ==
    /\ Called /\ last.external = "object"
    /\ last.caught.type = "TypeError" /\ ~last.raised

\* C4: every returned and every cached context has both scores within [0, 1].
C4_ScoresWithinUnit ==
    /\ ReturnedValue => ScoresInRange(last.value)
    /\ \A k \in DOMAIN cache : ScoresInRange(cache[k])

\* C5: without a credential every call returns the value of the first call
\* made with the same country argument, whatever the city, the supplier name
\* and the calls made before.
C5_FallbackDependsOnCountryOnly ==
    Called => /\ ~last.raised
              /\ last.value = firstByCountry[last.country].value

\* C5 witness: a later call with the same country but another cache key and
\* another supplier name than the first call for that country.
C5_Witness ==
    /\ Called /\ ~OPENAI_API_KEY
    /\ firstByCountry[last.country].cache_key # last.cache_key
    /\ firstByCountry[last.country].supplier_name # last.supplier_name

\* C6 as stated: when the external call raises, the value returned is the
\* value returned for that country without a credential.
C6_ErrorValueEqualsNoCredentialValue ==
    (Called /\ last.external = "raise") =>
        /\ ~last.raised
        /\ last.value = NoCredentialContext(last.country)

\* C6 amended: when the external call raises, the returned context has the
\* scores and the two risk labels of the no-credential value for that country;
\* its factor texts are the error message and "Unable to fetch".
C6_ErrorScoresEqualNoCredentialScores ==
    (Called /\ last.external = "raise") =>
        /\ ~last.raised
        /\ \A f \in {"geopolitical_score", "environmental_score", "climate_risk",
                     "supply_chain_disruption_risk"} :
               last.value[f] = NoCredentialContext(last.country)[f]
        /\ last.value["geopolitical_factors"] = <<"Error: ">> \o last.caught.msg
        /\ last.value["environmental_factors"] = <<"Unable to fetch">>

\* C6 witness: the external call raised for a country of the static table.
C6_Witness ==
    /\ Called /\ last.external = "raise" /\ ~last.raised
    /\ last.country \in DOMAIN GEOPOLITICAL_RISK_BY_COUNTRY

----------------------------------------------------------------------------
(* Claims about the risk scorer *)

Scored == scorer.pc = "scored"

\* C7: the overall score of every row under every context the resolver
\* returns lies within [0, 1].
C7_OverallScoreWithinUnit ==
    Scored => scorer.risk_score >= 0 /\ scorer.risk_score <= OverallOne

\* the level the thresholds of the claim give a score
ThresholdLevel(score) ==
    CASE score < 25 * One -> "Low"
      [] score >= 25 * One /\ score < 50 * One -> "Medium"
      [] score >= 50 * One /\ score < 75 * One -> "High"
      [] score >= 75 * One -> "Critical"

LevelRank(level) ==
    CASE level = "Low" -> 0 [] level = "Medium" -> 1
      [] level = "High" -> 2 [] level = "Critical" -> 3

\* C8: each score gets the level of the fixed thresholds, and of two scores
\* the higher never gets the lower level.
C8_LevelByThresholds ==
    leveler.pc = "done" =>
        /\ leveler.level_a = ThresholdLevel(leveler.a)
        /\ leveler.level_b = ThresholdLevel(leveler.b)
        /\ leveler.a <= leveler.b =>
               LevelRank(leveler.level_a) <= LevelRank(leveler.level_b)

\* C8 witness: a score of exactly 0.25 is Medium while the score just below
\* it is Low.
C8_Witness ==
    /\ leveler.pc = "done"
    /\ leveler.b = 25 * One /\ leveler.level_b = "Medium"
    /\ leveler.a = 25 * One - 1 /\ leveler.level_a = "Low"

\* the certifications a writing of the cell stands for
RECURSIVE NamesOf(_)
NamesOf(entries) ==
    IF Len(entries) = 0 THEN <<>>
    ELSE (IF entries[1].name = "" THEN <<>> ELSE << entries[1].name >>)
         \o NamesOf(Tail(entries))

HeldNames(writing) == NamesOf(writing.entries)

\* the trust scores of the claim, in hundredths
ClaimTrust(name) ==
    CASE name = "GOTS" -> 90 [] name = "RWS" -> 88 [] name = "GRS" -> 85
      [] name = "ZDHC" -> 82 [] name = "WRAP" -> 80 [] OTHER -> 70

RECURSIVE ClaimTrustSum(_)
ClaimTrustSum(names) ==
    IF Len(names) = 0 THEN 0 ELSE ClaimTrust(names[1]) + ClaimTrustSum(Tail(names))

\* C9: a supplier holding no certification (no such column, an empty cell, or
\* a cell of separators and blanks only) has certification sub-risk 1.0.
C9_NoCertificationMaxRisk ==
    (Scored /\ Len(HeldNames(scorer.written)) = 0) =>
        scorer.sub_risks.certification = One

\* C9 witness: a scored row whose cell is not empty but holds only separators
\* and blanks.
C9_Witness ==
    /\ Scored /\ Len(HeldNames(scorer.written)) = 0
    /\ "Supplier certifications" \in DOMAIN scorer.supplier_row
    /\ scorer.supplier_row["Supplier certifications"] = <<" ", ",">>

\* C10: with n >= 1 certifications held, n * (1 - sub-risk) is the sum of
\* their trust scores, i.e. the sub-risk is 1 minus their mean; a supplier
\* holding only GOTS has sub-risk 0.10.
C10_CertificationRiskIsOneMinusMean ==
    Scored =>
        LET held == HeldNames(scorer.written)
        IN  /\ Len(held) >= 1 =>
                   100 * Len(held) * (One - scorer.sub_risks.certification)
                       = One * ClaimTrustSum(held)
            /\ held = << "GOTS" >> => scorer.sub_risks.certification = Pct(10)

\* C10 witness: a scored row holding two certifications of different trust,
\* one of them written with padding.
C10_Witness ==
    /\ Scored
    /\ HeldNames(scorer.written) = << "GOTS", "GRS" >>
    /\ scorer.written.entries[1].text # GOTS
    /\ scorer.sub_risks.certification = One - (Pct(90) + Pct(85)) \div 2

\* the table value the claim takes for a row: the entry of the row's country,
\* 0.50 when the country is absent or not in the table
ClaimCountryValue(row) ==
    IF "Country" \in DOMAIN row /\ row["Country"] \in DOMAIN GEOPOLITICAL_RISK_BY_COUNTRY
    THEN GEOPOLITICAL_RISK_BY_COUNTRY[row["Country"]]
    ELSE Pct(50)

\* C11: the compliance sub-risk of every scored row is 0.3 plus 0.3 times the
\* table value of its country (0.50 when the country is absent, empty or not
\* in the table), capped at 1.0.
C11_ComplianceFromCountryTable ==
    Scored =>
        scorer.sub_risks.compliance =
            Min(Pct(30) + (3 * ClaimCountryValue(scorer.supplier_row)) \div 10, One)

\* a row with Failed audit, High geopolitical and environmental buckets and an
\* incident flagged
WorstProfile(row) ==
    /\ RowGet(row, "audit_status", None) = <<"Failed">>
    /\ RowGet(row, "geopolitical_risk", None) = <<"High">>
    /\ RowGet(row, "environmental_risk", None) = <<"High">>
    /\ RowGet(row, "has_incidents", None) = <<"True">>

\* C12: a scored supplier holding no certification, with Failed audit, High
\* buckets and an incident, has level High or Critical, whatever its country
\* and its external context.
C12_WorstProfileHighOrCritical ==
    (Scored /\ WorstProfile(scorer.supplier_row)
            /\ Len(HeldNames(scorer.written)) = 0) =>
        scorer.risk_level \in { "High", "Critical" }

----------------------------------------------------------------------------
(* Claims about the certification pages *)

\* the class the claim gives a day count
AlertClass(days) ==
    CASE days < 0 -> "Expired"
      [] days >= 0 /\ days < 30 -> "Critical"
      [] days >= 30 /\ days < 90 -> "Warning"
      [] days >= 90 -> "OK"

\* the expiry column of a certification named on the tracker page
TrackerColumn(certification) ==
    CASE certification = GRS -> "grs_expiry"
      [] certification = GOTS -> "gots_expiry"

\* days from the clock to the expiry of a tracker row's certification
TrackerDays(entry) ==
    LET row == CHOOSE r \in { suppliers_full_data[i] : i \in DOMAIN suppliers_full_data } :
                   r.name = entry.Supplier
    IN  Days(Timestamp(row[TrackerColumn(entry.Certification)]) - clock)

\* the certifications on the page, each with its day count and shown status
ShownStatuses ==
    IF page.mode = "Certification Updates"
    THEN [i \in DOMAIN page.cert_data |->
             [days |-> page.cert_data[i].Days_Left,
              status |-> page.cert_data[i].Status]]
    ELSE IF page.mode = "Certification Tracker"
    THEN [i \in DOMAIN page.all_certs |->
             [days |-> TrackerDays(page.all_certs[i]),
              status |-> page.all_certs[i].Status]]
    ELSE <<>>

\* C13: on both certification pages a certification is shown as Expired
\* exactly when its day count is below 0, and two certifications are shown
\* with the same status exactly when their day counts fall in the same of the
\* four classes Expired (< 0), Critical (< 30), Warning (< 90), OK.
C13_StatusByDaysToExpiry ==
    \A i \in DOMAIN ShownStatuses, j \in DOMAIN ShownStatuses :
        /\ ShownStatuses[i].status = "Expired" <=> ShownStatuses[i].days < 0
        /\ ShownStatuses[i].status = ShownStatuses[j].status
               <=> AlertClass(ShownStatuses[i].days) = AlertClass(ShownStatuses[j].days)

----------------------------------------------------------------------------
(* Claims about the activity log and the supplier table *)

IsPrefix(s, t) == Len(s) <= Len(t) /\ SubSeq(t, 1, Len(s)) = s

\* C14: in every step of every script run the lines of the log before the
\* step are a prefix of the lines after it, and a log file never disappears.
C14_LogOnlyGrows ==
    [][ /\ IsPrefix(data_log.lines, data_log'.lines)
        /\ data_log.exists => data_log'.exists ]_vars

\* C14 witness: the history page is shown on a log whose first line was
\* written by an incident report and whose second line by a later bulk upload.
C14_Witness ==
    /\ page.mode = "Data History"
    /\ Len(data_log.lines) = 2
    /\ data_log.lines[1].json.action = <<"incident_report">>
    /\ data_log.lines[2].json.action = <<"bulk_upload">>

\* the log entry tells that the column of its supplier now holds the value
EntryRecords(entry, column, value) ==
    CASE entry.action = <<"certification_update">> ->
             /\ column = cert_col_map[entry.cert_type]
             /\ value = entry.expiry_date
      [] entry.action = <<"audit_update">> ->
             \/ column = "last_audit_date" /\ value = entry.audit_date
             \/ column = "audit_status" /\ value = entry.status
             \/ column = "next_audit_date" /\ value = entry.next_audit
      [] entry.action = <<"incident_report">> ->
             \/ column = "has_incidents" /\ value = True
             \/ column = "incident_type" /\ value = entry.incident_type
      [] entry.action = <<"bulk_upload">> ->
             \/ /\ entry.data.cert_type \in DOMAIN cert_col_map
                /\ column = cert_col_map[entry.data.cert_type]
                /\ value = entry.data.expiry_date
             \/ column = "last_audit_date" /\ value = entry.data.audit_date
             \/ column = "audit_status" /\ value = entry.data.audit_status
             \/ column = "next_audit_date" /\ value = entry.data.next_audit_date
             \/ column = "has_incidents" /\ value = entry.data.incident_flag
             \/ column = "incident_type" /\ value = entry.data.incident_type

\* C15: whenever a script run changes a cell of the table file, the lines it
\* appends to the log include an entry of that row's supplier that records
\* the cell's new value.
C15_EveryChangeIsLogged ==
    [][ \A i \in DOMAIN suppliers_full_data :
          \A column \in DOMAIN suppliers_full_data[i] :
            suppliers_full_data'[i][column] # suppliers_full_data[i][column] =>
              \E k \in (Len(data_log.lines) + 1)..Len(data_log'.lines) :
                /\ data_log'.lines[k].json.supplier = suppliers_full_data[i].name
                /\ EntryRecords(data_log'.lines[k].json, column,
                                suppliers_full_data'[i][column]) ]_vars

\* the page shows the history filtered by a supplier
HistoryShown == page.mode = "Data History" /\ page.raised = NoExc

\* C16: the history filtered by a supplier shows entries of that supplier
\* only, each no older than the one before it, and no more than 50.
C16_FilteredNewestFirstCapped ==
    (HistoryShown /\ page.supplier_filter # <<"All">>) =>
        /\ \A i \in DOMAIN page.shown : page.shown[i].supplier = page.supplier_filter
        /\ \A i \in DOMAIN page.shown, j \in DOMAIN page.shown :
               i < j => fromisoformat(page.shown[i].timestamp)
                            >= fromisoformat(page.shown[j].timestamp)
        /\ Len(page.shown) <= 50

\* the entries of the complete lines, in file order
RECURSIVE WellFormed(_)
WellFormed(lines) ==
    IF Len(lines) = 0 THEN <<>>
    ELSE (IF lines[1].complete THEN << lines[1].json >> ELSE <<>>)
         \o WellFormed(Tail(lines))

\* C17: when the log holds a line that is not a JSON document, the history
\* page does not fail and has read every complete line before and after it.
C17_UnparsableLineSkipped ==
    (page.mode = "Data History" /\ data_log.exists
        /\ \E k \in DOMAIN data_log.lines : ~data_log.lines[k].complete) =>
        /\ page.raised = NoExc
        /\ page.activities = Reverse(WellFormed(data_log.lines))

\* C18: every row of the table file has has_incidents True exactly when its
\* incident_type is not empty.
C18_IncidentFlagIffType ==
    \A i \in DOMAIN suppliers_full_data :
        suppliers_full_data[i].has_incidents = True
            <=> suppliers_full_data[i].incident_type # <<>>

\* C19: every row of the table file has audit_status Passed, Pending or Failed.
C19_AuditStatusOneOfThree ==
    \A i \in DOMAIN suppliers_full_data :
        suppliers_full_data[i].audit_status
            \in { <<"Passed">>, <<"Pending">>, <<"Failed">> }

\* the lines of an uploaded file that name no supplier of the table, by the
\* row number the page reports (the header is row 1)
OffendingRows(uploaded_file, table) ==
    { [row |-> k + 1, supplier |-> read_csv(uploaded_file)[k].supplier_name] :
        k \in { n \in DOMAIN uploaded_file :
                  \A i \in DOMAIN table : table[i].name # uploaded_file[n].supplier_name } }

\* C20: a script run of the bulk upload page whose file has a row naming no
\* supplier of the table leaves the table file and the log file as they were,
\* and reports each such row once and no other.
C20_UnknownSupplierRejectsUpload ==
    [][ (page'.mode = "Bulk Upload"
            /\ OffendingRows(page'.uploaded_file, suppliers_full_data) # {}) =>
          /\ suppliers_full_data' = suppliers_full_data
          /\ data_log' = data_log
          /\ { page'.errors[k] : k \in DOMAIN page'.errors }
                 = OffendingRows(page'.uploaded_file, suppliers_full_data)
          /\ Len(page'.errors)
                 = Cardinality(OffendingRows(page'.uploaded_file, suppliers_full_data)) ]_vars

\* C20 witness: a file of three rows, the first naming a supplier of the
\* table and the other two not, was rejected while the log held entries.
C20_Witness ==
    /\ page.mode = "Bulk Upload"
    /\ Len(page.uploaded_file) = 3
    /\ page.uploaded_file[1].supplier_name = suppliers_full_data[1].name
    /\ Len(page.errors) = 2
    /\ Len(data_log.lines) >= 1

----------------------------------------------------------------------------
(* Claims about the context cache within a run *)

\* C21: once a cache key holds a value, no later get_external_context call
\* changes or removes it, and a call whose key is already in the cache returns
\* the stored value, issues no external request and leaves the cache as it was.
C21_CachedValuePersistsAndHitIsPure ==
    [][ /\ \A k \in DOMAIN cache : k \in DOMAIN cache' /\ cache'[k] = cache[k]
        /\ last'.cache_key \in DOMAIN cache =>
               /\ ~last'.raised
               /\ last'.value = cache[last'.cache_key]
               /\ apiCalls' = apiCalls
               /\ cache' = cache ]_vars

\* a hit on one of two cached keys, after both were resolved externally
C21_Witness ==
    /\ last.path = "hit"
    /\ Cardinality(DOMAIN cache) = 2
    /\ last.value = cache[last.cache_key]
    /\ TotalApiCalls >= 2

----------------------------------------------------------------------------
(* Claims about clearing an incident *)

\* C22: a run of the incident page in which "Clear Incident Flag" is pressed
\* for a supplier that has incidents leaves that supplier's row in the table
\* file with has_incidents False and an empty incident_type, whether
\* "Report Incident" is pressed in the same run or not, and keeps every line
\* the log had.
C22_ClearResetsIncidentFlag ==
    [][ \A i \in DOMAIN suppliers_full_data :
          ( /\ page'.mode = "Incident Reporting"
            /\ page'.clear_incident
            /\ i = index0(suppliers_full_data, page'.supplier)
            /\ CellTruthy(read_csv(suppliers_full_data)[i].has_incidents) )
          => /\ suppliers_full_data'[i].has_incidents = False
             /\ suppliers_full_data'[i].incident_type = <<>>
             /\ IsPrefix(data_log.lines, data_log'.lines) ]_vars

----------------------------------------------------------------------------
(* Claims about the parse fallback *)

\* a score field that is present and is no number
NonNumeric(obj, name) ==
    /\ name \in DOMAIN obj
    /\ obj[name].t = "null" \/ (obj[name].t = "str" /\ ~obj[name].numeric)

\* the response cannot be parsed: no valid JSON, or a score field not numeric
ParseFails(outcome) ==
    /\ outcome.kind = "text"
    /\ \/ outcome.loads.t = "JSONDecodeError"
       \/ /\ outcome.loads.t = "object"
          /\ \/ NonNumeric(outcome.loads.obj, "geopolitical_score")
             \/ NonNumeric(outcome.loads.obj, "environmental_score")

\* characters a+1 .. b of the text, as many of them as the text has
Characters(text, a, b) == [i \in 1..(Min(b, Len(text)) - Min(a, Len(text))) |-> text[a + i]]

\* C23: a call whose response cannot be parsed returns the country-table
\* value (0.50 for an unknown country) as geopolitical_score, 0.50 as
\* environmental_score, the first 200 characters of the response text as
\* geopolitical_factors and the following 200 as environmental_factors,
\* whatever the length of the text.
C23_ParseFallbackSlicesText ==
    (Called /\ last.path = "external" /\ ParseFails(last.outcome)) =>
        /\ ~last.raised
        /\ last.value.geopolitical_score = CountryRisk(last.country)
        /\ last.value.environmental_score = Pct(50)
        /\ last.value.geopolitical_factors =
               Characters(last.outcome.response_text, 0, 200)
        /\ last.value.environmental_factors =
               Characters(last.outcome.response_text, 200, 400)

----------------------------------------------------------------------------
(* Claims about the order of the two file writes *)

\* the cells a log entry tells of: pairs of a column and the value written
Described(entry) ==
    LET told ==
          CASE entry.action = <<"certification_update">> ->
                   { << cert_col_map[entry.cert_type], entry.expiry_date >> }
            [] entry.action = <<"audit_update">> ->
                   { << "last_audit_date", entry.audit_date >>,
                     << "audit_status", entry.status >>,
                     << "next_audit_date", entry.next_audit >> }
            [] entry.action = <<"incident_report">> ->
                   { << "has_incidents", True >>,
                     << "incident_type", entry.incident_type >> }
            [] entry.action = <<"bulk_upload">> ->
                   (IF entry.data.cert_type \in DOMAIN cert_col_map
                    THEN { << cert_col_map[entry.data.cert_type],
                              entry.data.expiry_date >> }
                    ELSE {})
                   \cup { << "last_audit_date", entry.data.audit_date >>,
                          << "audit_status", entry.data.audit_status >>,
                          << "next_audit_date", entry.data.next_audit_date >>,
                          << "has_incidents", entry.data.incident_flag >>,
                          << "incident_type", entry.data.incident_type >> }
    IN  { cell \in told : ~IsNa(cell[2]) /\ cell[2] # <<>> }

\* C24: at the moment a line is appended to the log, the table file holds,
\* in the row of the entry's supplier, every value the entry tells of.
C24_LogAppendedAfterTableWrite ==
    [][ \A k \in (Len(data_log.lines) + 1)..Len(data_log'.lines) :
          LET entry == data_log'.lines[k].json
              i == index0(suppliers_full_data', entry.supplier)
          IN  \A cell \in Described(entry) :
                suppliers_full_data'[i][cell[1]] = cell[2] ]_vars

----------------------------------------------------------------------------
(* Claims about the cache key *)

\* the call stored what it returned under its cache key
Stored(call) ==
    call.path = "external" /\ ~call.raised /\ call.cache_key \in DOMAIN cache

\* C25: a call that is answered from the entry the call before it resolved
\* and stored is a call for the same country and city up to letter case.
C25_NoEntrySharedAcrossLocations ==
    [][ (Stored(last) /\ last'.path = "hit" /\ last'.cache_key = last.cache_key) =>
            /\ Lower(last'.country) = Lower(last.country)
            /\ Lower(last'.city) = Lower(last.city) ]_vars

----------------------------------------------------------------------------
(* Claims about the frame of a certification save *)

\* the two tables differ at most in one column of one row of the supplier
SameButOneCell(before, after, supplier, column) ==
    /\ DOMAIN after = DOMAIN before
    /\ \E i \in Matches(before, supplier) :
          \A j \in DOMAIN before :
            /\ DOMAIN after[j] = DOMAIN before[j]
            /\ \A c \in DOMAIN before[j] :
                  (j # i \/ c # column) => after[j][c] = before[j][c]

\* C26: a run with "Save Certification" pressed appends exactly one
\* certification_update entry, of the chosen supplier, to the log and leaves
\* the table file as it was but for the expiry column of the chosen
\* certification in one row of that supplier.
C26_SaveCertificationChangesOneCell ==
    [][ (page'.mode = "Certification Updates" /\ page'.pressed) =>
          /\ Len(data_log'.lines) = Len(data_log.lines) + 1
          /\ IsPrefix(data_log.lines, data_log'.lines)
          /\ LET log_entry == data_log'.lines[Len(data_log'.lines)].json
             IN  /\ log_entry.action = <<"certification_update">>
                 /\ log_entry.supplier = page'.supplier
                 /\ SameButOneCell(suppliers_full_data, suppliers_full_data',
                                   page'.supplier, cert_col_map[log_entry.cert_type])
      ]_vars

====
